---- MODULE Spec2Model ----
(***************************************************************************)
(* Model of the two exercises of the repository:                           *)
(*   task-2-error-handling-refactor/AI-generated_refactor.py               *)
(*       validate_file_path, load_json_file, extract_user_data,            *)
(*       process_user_files (the batch file aggregator)                    *)
(*   task-2-error-handling-refactor/human-written_refactor.py              *)
(*       process_user_files (the second reference implementation)          *)
(*   task-1-rest-api-endpoint/AI-generated_api.py                          *)
(*       validate_email, validate_name, validate_user_data, create_user    *)
(*                                                                         *)
(* JSON values, files and strings are represented by records that keep the *)
(* distinctions the code branches on.                                      *)
(***************************************************************************)
EXTENDS Integers, Sequences, FiniteSets, TLC

VARIABLES
    file_paths,   \* argument of process_user_files: [isList, paths]
    pc,           \* position inside process_user_files
    i,            \* 1-based index of the path the for loop is at
    results,      \* the list `results`
    errors,       \* the list `errors`
    openHandles,  \* indices of the paths whose file object is open
    exc,          \* exception pending inside load_json_file ("none" if none)
    data,         \* value json.load returned for the current path
    result,       \* value extract_user_data returned for the current path
    calls,        \* history: the per-file steps taken, in order
    ret,          \* what process_user_files returned or raised
    xfile,        \* SpecExtract: the file the two implementations are applied to
    xai,          \* SpecExtract: outcome of extract_user_data on xfile
    xhuman,       \* SpecExtract: outcome of the human-written process_user_files
    name,         \* SpecName: argument of validate_name
    nameOut,      \* SpecName: value validate_name returned
    request,      \* SpecApi: the POST /users request
    response      \* SpecApi: the response create_user produced

batchVars == <<file_paths, pc, i, results, errors, openHandles, exc, data,
               result, calls, ret>>
extractVars == <<xfile, xai, xhuman>>
nameVars == <<name, nameOut>>
apiVars == <<request, response>>
vars == <<batchVars, extractVars, nameVars, apiVars>>

(***************************************************************************)
(* Bounds of the model.                                                    *)
(***************************************************************************)
MaxPaths == 3       \* longest file_paths list of the batch specification
MaxUsers == 3       \* longest 'users' list of the extraction specification

None == [kind |-> "None"]
NotStarted == [kind |-> "NotStarted"]

(***************************************************************************)
(* JSON values found in a 'users' list.  An entry is either not an object  *)
(* ("nonobj") or an object whose 'value' is: absent, an integer n, the     *)
(* numeric string "7", the string "x", null, true, a list, or an integer   *)
(* literal of 401 digits (more than a double can hold).                    *)
(***************************************************************************)
Entry(k, n) == [kind |-> k, n |-> n]

Entries ==
    {Entry("nonobj", 0), Entry("absent", 0), Entry("int", 5), Entry("int", 1),
     Entry("numstr", 7), Entry("badstr", 0), Entry("null", 0),
     Entry("bool", 1), Entry("list", 0), Entry("huge", 0)}

RECURSIVE SeqsUpTo(_, _)
SeqsUpTo(S, n) ==
    IF n = 0 THEN {<<>>}
    ELSE LET shorter == SeqsUpTo(S, n - 1)
         IN  shorter \cup {Append(s, e) : s \in {t \in shorter : Len(t) = n - 1}, e \in S}

(***************************************************************************)
(* Files.  kind says what the path refers to; for a JSON object, ut is the *)
(* type of its 'users' entry and items its elements when it is a list.     *)
(***************************************************************************)
File(k, ut, items) == [kind |-> k, ut |-> ut, items |-> items]

PlainKinds ==
    {"nonstr",      \* the list element is not a string (the integer 42)
     "missing",     \* no such file
     "directory",   \* exists, but is not a regular file
     "vanished",    \* a regular file when checked, removed before open()
     "noperm",      \* a regular file the process may not read
     "ioerror",     \* read() fails with an OSError
     "badenc",      \* bytes that are not UTF-8
     "malformed",   \* text that is not JSON
     "nonobject"}   \* JSON whose top-level value is not an object

PlainFiles == {File(k, "-", <<>>) : k \in PlainKinds}

ObjectFile(ut, items) == File("object", ut, items)

\* the example of the specification: [{value:5},{value:"x"},{novalue:1}]
ExampleUsers == <<Entry("int", 5), Entry("badstr", 0), Entry("absent", 0)>>

NonListObjects ==
    {ObjectFile("absent", <<>>), ObjectFile("number", <<>>), ObjectFile("emptyobj", <<>>)}

ObjectFiles(lists) == NonListObjects \cup {ObjectFile("list", us) : us \in lists}

\* the 'users' lists of the batch specification; the extraction
\* specification enumerates every list up to MaxUsers entries
BatchUsers ==
    {ExampleUsers, <<Entry("huge", 0)>>, <<Entry("nonobj", 0), Entry("int", 1)>>}

BatchFiles ==
    PlainFiles
    \cup {ObjectFile("absent", <<>>), ObjectFile("number", <<>>)}
    \cup {ObjectFile("list", us) : us \in BatchUsers}

ExtractFiles == PlainFiles \cup ObjectFiles(SeqsUpTo(Entries, MaxUsers))

\* str(path); a string path is named after its position in the list
PathStr(idx, f) ==
    IF f.kind = "nonstr" THEN "42" ELSE "p" \o ToString(idx) \o ".json"

IsStr(f) == f.kind # "nonstr"


(***************************************************************************)
(* AI-generated_refactor.py: validate_file_path                            *)
(***************************************************************************)
\* path.exists() and path.is_file()
validate_file_path(f) == f.kind \notin {"missing", "directory"}

(***************************************************************************)
(* AI-generated_refactor.py: load_json_file                                *)
(***************************************************************************)
\* the exception open(file_path, 'r', encoding='utf-8') raises, if any
OpenOutcome(f) ==
    CASE f.kind \in {"missing", "vanished"} -> "FileNotFoundError"
      [] f.kind = "noperm" -> "PermissionError"
      [] f.kind = "directory" -> "IsADirectoryError"
      [] OTHER -> "none"

\* the exception json.load(f) raises inside the with block, if any
ReadOutcome(f) ==
    CASE f.kind = "ioerror" -> "OSError"
      [] f.kind = "badenc" -> "UnicodeDecodeError"
      [] f.kind = "malformed" -> "JSONDecodeError"
      [] OTHER -> "none"

\* isinstance(data, dict)
IsDict(d) == d.kind = "object"

\* leaving the with block without closing the file when json.load raised
WithExitOnSuccessOnly(handles, idx, e) ==
    IF e = "none" THEN handles \ {idx} ELSE handles

\* leaving the with block closes the file, whether or not json.load raised
WithExit(handles, idx, e) == handles \ {idx}

NotObjectMessage == "File does not contain a JSON object"
JsonErrorDetail == "Expecting value: line 1 column 1 (char 0)"

\* str(e) of the exception e
ExcStr(e, path) ==
    CASE e = "FileProcessingError" -> NotObjectMessage \o " (file: " \o path \o ")"
      [] e = "IsADirectoryError" -> "[Errno 21] Is a directory: '" \o path \o "'"
      [] e = "JSONDecodeError" -> JsonErrorDetail
      [] OTHER -> "[Errno 5] Input/output error"

\* the except clauses of load_json_file, in their order: the message of the
\* FileProcessingError each raises.  The FileProcessingError raised inside
\* the try block for a non-object is an Exception and reaches the last one.
ExceptMessage(e, path) ==
    CASE e = "FileNotFoundError" -> "File not found"
      [] e = "JSONDecodeError" -> "Invalid JSON format: " \o ExcStr(e, path)
      [] e = "PermissionError" -> "Permission denied"
      [] e = "UnicodeDecodeError" -> "File encoding error"
      [] OTHER -> "Unexpected error: " \o ExcStr(e, path)

(***************************************************************************)
(* AI-generated_refactor.py: extract_user_data                             *)
(***************************************************************************)
\* float(user.get('value', 0)): the number, or the exception float raises
FloatOf(u) ==
    CASE u.kind = "absent" -> [exc |-> "none", n |-> 0]
      [] u.kind \in {"int", "numstr", "bool"} -> [exc |-> "none", n |-> u.n]
      [] u.kind = "badstr" -> [exc |-> "ValueError", n |-> 0]
      [] u.kind \in {"null", "list"} -> [exc |-> "TypeError", n |-> 0]
      [] u.kind = "huge" -> [exc |-> "OverflowError", n |-> 0]

\* except (TypeError, ValueError)
CaughtByEntryHandler == {"TypeError", "ValueError"}

\* the for loop over enumerate(users), from index idx with running total
RECURSIVE SumLoop(_, _, _)
SumLoop(users, idx, total) ==
    IF idx > Len(users) THEN [exc |-> "none", total |-> total]
    ELSE LET u == users[idx]
             c == FloatOf(u)
         IN  IF u.kind = "nonobj" THEN SumLoop(users, idx + 1, total)
             ELSE IF c.exc = "none" THEN SumLoop(users, idx + 1, total + c.n)
             ELSE IF c.exc \in CaughtByEntryHandler THEN SumLoop(users, idx + 1, total)
             ELSE [exc |-> c.exc, total |-> total]

Summary(path, count, total) ==
    [file |-> path, user_count |-> count, total_value |-> total]

Failure(msg) == [ok |-> FALSE, message |-> msg]
Success(s) == [ok |-> TRUE, summary |-> s]

\* len(users)
UserCount(users) == Len(users)

extract_user_data(d, path) ==
    LET users == IF d.ut = "absent" THEN <<>> ELSE d.items
        loop == SumLoop(users, 1, 0)
    IN  IF d.ut \notin {"absent", "list"}
        THEN Failure("'users' field must be a list")
        ELSE IF loop.exc # "none"
        THEN Failure("Data extraction error: int too large to convert to float")
        ELSE Success(Summary(path, UserCount(users), loop.total))


(***************************************************************************)
(* AI-generated_refactor.py: process_user_files                            *)
(***************************************************************************)
ErrorEntry(file, msg) == [file |-> file, error |-> msg]

\* logging the failure without recording it
LogOnly(errs, file, msg) == errs

\* errors.append({'file': ..., 'error': ...})
RecordError(errs, file, msg) == Append(errs, ErrorEntry(file, msg))

\* a failure leaves the loop
BreakOnFailure(idx, n) == [i |-> idx, pc |-> "summary"]

\* end of one iteration (continue, or the end of the loop body): the loop
\* moves to the next path, or ends after the last one
NextIteration(idx, n) ==
    [i |-> idx + 1, pc |-> IF idx + 1 > n THEN "summary" ELSE "pathcheck"]

\* what follows a failed step: the error is recorded and the loop goes on
AfterFailure(idx, n) == NextIteration(idx, n)

\* the docstring's reading: an empty list raises too
RaiseOnEmpty(arg) ==
    IF ~arg.isList \/ arg.paths = <<>> THEN "raised" ELSE "pathcheck"

\* the input validation before the loop
EntryOutcome(arg) ==
    IF ~arg.isList THEN "raised"
    ELSE IF arg.paths = <<>> THEN "done"
    ELSE "pathcheck"

\* validate_file_path taken to succeed for every string
PathAlwaysValid(f) == IsStr(f)

\* the two guards in front of load_json_file
PathOk(f) == IsStr(f) /\ validate_file_path(f)

NPaths == Len(file_paths.paths)
CurFile == file_paths.paths[i]
CurPath == PathStr(i, CurFile)

Event(op, idx) == <<op, idx>>

Fail(file, msg) ==
    /\ errors' = RecordError(errors, file, msg)
    /\ i' = AfterFailure(i, NPaths).i
    /\ pc' = AfterFailure(i, NPaths).pc

BatchInit ==
    /\ file_paths \in
         {[isList |-> FALSE, paths |-> <<>>]} \cup
         {[isList |-> TRUE, paths |-> ps] : ps \in SeqsUpTo(BatchFiles, MaxPaths)}
    /\ pc = "call"
    /\ i = 0
    /\ results = <<>>
    /\ errors = <<>>
    /\ openHandles = {}
    /\ exc = "none"
    /\ data = None
    /\ result = None
    /\ calls = <<>>
    /\ ret = NotStarted

\* lines 210-220: the checks of the argument
Call ==
    /\ pc = "call"
    /\ pc' = EntryOutcome(file_paths)
    /\ i' = IF EntryOutcome(file_paths) = "pathcheck" THEN 1 ELSE 0
    /\ ret' = CASE EntryOutcome(file_paths) = "raised" ->
                     [kind |-> "raised", value |-> "ValueError: file_paths must be a list"]
                [] EntryOutcome(file_paths) = "done" ->
                     [kind |-> "returned", value |-> <<>>]
                [] OTHER -> ret
    /\ UNCHANGED <<file_paths, results, errors, openHandles, exc, data, result, calls>>
    /\ UNCHANGED <<extractVars, nameVars, apiVars>>

\* lines 225-240: the type of the path and validate_file_path
PathCheck ==
    /\ pc = "pathcheck"
    /\ calls' = IF PathOk(CurFile)
                THEN Append(calls, Event("pathcheck", i))
                ELSE calls \o <<Event("pathcheck", i), Event("failed", i)>>
    /\ IF ~IsStr(CurFile)
       THEN Fail(CurPath, "Invalid path type")
       ELSE IF ~PathOk(CurFile)
       THEN Fail(CurPath, "File does not exist or is not accessible")
       ELSE /\ pc' = "open"
            /\ UNCHANGED <<errors, i>>
    /\ UNCHANGED <<file_paths, results, openHandles, exc, data, result, ret>>
    /\ UNCHANGED <<extractVars, nameVars, apiVars>>

\* line 243 and line 72: load_json_file is called and opens the file
LoadOpen ==
    /\ pc = "open"
    /\ calls' = Append(calls, Event("load", i))
    /\ exc' = OpenOutcome(CurFile)
    /\ IF OpenOutcome(CurFile) = "none"
       THEN /\ openHandles' = openHandles \cup {i}
            /\ pc' = "read"
       ELSE /\ openHandles' = openHandles
            /\ pc' = "except"
    /\ UNCHANGED <<file_paths, i, results, errors, data, result, ret>>
    /\ UNCHANGED <<extractVars, nameVars, apiVars>>

\* line 73: json.load(f) inside the with block
LoadRead ==
    /\ pc = "read"
    /\ exc' = ReadOutcome(CurFile)
    /\ data' = IF ReadOutcome(CurFile) = "none" THEN CurFile ELSE data
    /\ pc' = "exit"
    /\ UNCHANGED <<file_paths, i, results, errors, openHandles, result, calls, ret>>
    /\ UNCHANGED <<extractVars, nameVars, apiVars>>

\* line 72: the with block is left, normally or by the exception
LoadExit ==
    /\ pc = "exit"
    /\ openHandles' = WithExit(openHandles, i, exc)
    /\ pc' = IF exc = "none" THEN "typecheck" ELSE "except"
    /\ UNCHANGED <<file_paths, i, results, errors, exc, data, result, calls, ret>>
    /\ UNCHANGED <<extractVars, nameVars, apiVars>>

\* lines 75-82 and 245-250: the top-level value must be an object; the
\* FileProcessingError for a non-object is raised inside the try block
LoadTypeCheck ==
    /\ pc = "typecheck"
    /\ IF ~IsDict(data)
       THEN /\ exc' = "FileProcessingError"
            /\ pc' = "except"
            /\ UNCHANGED <<errors, i>>
       ELSE IF data = None
       THEN /\ Fail(CurPath, "Failed to load file")
            /\ exc' = exc
       ELSE /\ pc' = "extract"
            /\ UNCHANGED <<errors, i, exc>>
    /\ UNCHANGED <<file_paths, results, openHandles, data, result, calls, ret>>
    /\ UNCHANGED <<extractVars, nameVars, apiVars>>

\* lines 84-122 and 262-267: an except clause of load_json_file raises the
\* FileProcessingError that process_user_files records
LoadExcept ==
    /\ pc = "except"
    /\ Fail(CurPath, ExceptMessage(exc, CurPath))
    /\ exc' = "none"
    /\ data' = None
    /\ calls' = Append(calls, Event("failed", i))
    /\ UNCHANGED <<file_paths, results, openHandles, result, ret>>
    /\ UNCHANGED <<extractVars, nameVars, apiVars>>

\* line 253 and lines 262-267: extract_user_data
Extract ==
    /\ pc = "extract"
    /\ calls' = IF extract_user_data(data, CurPath).ok
                THEN Append(calls, Event("extract", i))
                ELSE calls \o <<Event("extract", i), Event("failed", i)>>
    /\ LET r == extract_user_data(data, CurPath)
       IN  IF r.ok
           THEN /\ result' = r.summary
                /\ pc' = "emit"
                /\ UNCHANGED <<errors, i>>
           ELSE /\ Fail(CurPath, r.message)
                /\ result' = None
    /\ data' = None
    /\ UNCHANGED <<file_paths, results, openHandles, exc, ret>>
    /\ UNCHANGED <<extractVars, nameVars, apiVars>>

\* lines 254-260: the summary is appended
Emit ==
    /\ pc = "emit"
    /\ calls' = Append(calls, Event("emit", i))
    /\ results' = Append(results, result)
    /\ result' = None
    /\ i' = NextIteration(i, NPaths).i
    /\ pc' = NextIteration(i, NPaths).pc
    /\ UNCHANGED <<file_paths, errors, openHandles, exc, data, ret>>
    /\ UNCHANGED <<extractVars, nameVars, apiVars>>

\* lines 277-288: the summary is logged and results returned
Return ==
    /\ pc = "summary"
    /\ ret' = [kind |-> "returned", value |-> results]
    /\ pc' = "done"
    /\ UNCHANGED <<file_paths, i, results, errors, openHandles, exc, data, result, calls>>
    /\ UNCHANGED <<extractVars, nameVars, apiVars>>


(***************************************************************************)
(* human-written_refactor.py: process_user_files                           *)
(***************************************************************************)
\* sum(u.get('value', 0) for u in data['users']) from index idx: the total
\* is n + huge * (the 401-digit integer); exc is the exception raised
RECURSIVE HumanSum(_, _, _)
HumanSum(users, idx, total) ==
    IF idx > Len(users) THEN [exc |-> "none", total |-> total]
    ELSE LET u == users[idx]
         IN  CASE u.kind = "nonobj" -> [exc |-> "AttributeError", total |-> total]
               [] u.kind = "absent" -> HumanSum(users, idx + 1, total)
               [] u.kind \in {"int", "bool"} ->
                    HumanSum(users, idx + 1, [total EXCEPT !.n = @ + u.n])
               [] u.kind = "huge" ->
                    HumanSum(users, idx + 1, [total EXCEPT !.huge = @ + 1])
               [] OTHER -> [exc |-> "TypeError", total |-> total]

\* an iteration that skips the entries it cannot add, as extract_user_data does
HumanIterationSkipping(path, f) ==
    IF f.kind = "object" /\ f.ut = "list"
    THEN <<Summary(path, Len(f.items), [n |-> SumLoop(f.items, 1, 0).total, huge |-> 0])>>
    ELSE <<>>

\* one iteration of the loop: the summaries it appends to results (the
\* except clauses only log).  Files are read with the locale's encoding,
\* taken to be UTF-8.
HumanIteration(path, f) ==
    LET sum == HumanSum(f.items, 1, [n |-> 0, huge |-> 0])
    IN  CASE f.kind # "object" -> <<>>
          [] f.ut = "absent" -> <<>>
          [] f.ut = "number" -> <<>>
          [] f.ut = "emptyobj" -> <<Summary(path, 0, [n |-> 0, huge |-> 0])>>
          [] OTHER ->
               IF sum.exc = "none"
               THEN <<Summary(path, Len(f.items), sum.total)>>
               ELSE <<>>

RECURSIVE HumanLoop(_, _)
HumanLoop(paths, idx) ==
    IF idx > Len(paths) THEN <<>>
    ELSE HumanIteration(PathStr(idx, paths[idx]), paths[idx]) \o HumanLoop(paths, idx + 1)

human_process_user_files(paths) == HumanLoop(paths, 1)

(***************************************************************************)
(* The two implementations applied to one file.                            *)
(***************************************************************************)
XPath == PathStr(1, xfile)

ExtractInit ==
    /\ xfile \in ExtractFiles
    /\ xai = NotStarted
    /\ xhuman = NotStarted

\* extract_user_data on the object load_json_file returned for the file
ExtractUserData ==
    /\ xai = NotStarted
    /\ IsStr(xfile) /\ validate_file_path(xfile)
    /\ OpenOutcome(xfile) = "none" /\ ReadOutcome(xfile) = "none" /\ IsDict(xfile)
    /\ xai' = [kind |-> "done", out |-> extract_user_data(xfile, XPath)]
    /\ UNCHANGED <<xfile, xhuman>>
    /\ UNCHANGED <<batchVars, nameVars, apiVars>>

\* the human-written process_user_files on the one-element list [path]
HumanProcess ==
    /\ xhuman = NotStarted
    /\ xhuman' = [kind |-> "done", out |-> human_process_user_files(<<xfile>>)]
    /\ UNCHANGED <<xfile, xai>>
    /\ UNCHANGED <<batchVars, nameVars, apiVars>>


(***************************************************************************)
(* AI-generated_api.py: strings.  A name is a sequence of runs [c, k]: k   *)
(* characters of class c.  "tab" stands for the whitespace characters      *)
(* other than the space, "nonascii" for letters outside a-z and A-Z.       *)
(***************************************************************************)
MaxRuns == 3        \* most runs of a name of the name specification
MinNameLen == 2
MaxNameLen == 100

NameClasses ==
    {"letter", "nonascii", "space", "tab", "hyphen", "apostrophe", "digit", "symbol"}
RunLengths == {1, MinNameLen, MaxNameLen}
Runs == [c : NameClasses, k : RunLengths]

Str(runs) == [t |-> "str", runs |-> runs]
NonStr == [t |-> "num", runs |-> <<>>]
Absent == [t |-> "absent", runs |-> <<>>]

RECURSIVE StrLen(_)
StrLen(runs) == IF runs = <<>> THEN 0 ELSE Head(runs).k + StrLen(Tail(runs))

IsSpace(c) == c \in {"space", "tab"}

RECURSIVE LStrip(_)
LStrip(runs) ==
    IF runs # <<>> /\ IsSpace(Head(runs).c) THEN LStrip(Tail(runs)) ELSE runs

RECURSIVE RStrip(_)
RStrip(runs) ==
    IF runs # <<>> /\ IsSpace(runs[Len(runs)].c)
    THEN RStrip(SubSeq(runs, 1, Len(runs) - 1))
    ELSE runs

\* name.strip()
Strip(runs) == RStrip(LStrip(runs))

\* re.match(r"^[a-zA-Z\s'-]+$", name)
MatchesNamePattern(runs) ==
    /\ runs # <<>>
    /\ \A r \in 1..Len(runs) :
         runs[r].c \in {"letter", "space", "tab", "hyphen", "apostrophe"}

NameResult(valid, msg) == [valid |-> valid, message |-> msg]

\* the length and character checks applied to the name as given
NameChecksUntrimmed(runs) == runs

\* line 52: the checks apply to the trimmed name
Trimmed(runs) == Strip(runs)

validate_name(v) ==
    IF v.t # "str" \/ v.runs = <<>>
    THEN NameResult(FALSE, "Name must be a non-empty string")
    ELSE LET nm == Trimmed(v.runs)
         IN  IF StrLen(nm) < MinNameLen
             THEN NameResult(FALSE, "Name must be at least 2 characters long")
             ELSE IF StrLen(nm) > MaxNameLen
             THEN NameResult(FALSE, "Name must not exceed 100 characters")
             ELSE IF ~MatchesNamePattern(nm)
             THEN NameResult(FALSE, "Name contains invalid characters")
             ELSE NameResult(TRUE, "")

(***************************************************************************)
(* An email is a sequence of characters, each given by its class:          *)
(* "localsym" is one of _ % +, "other" any character the pattern rejects.  *)
(***************************************************************************)
EStr(chars) == [t |-> "str", chars |-> chars]
ENonStr == [t |-> "num", chars |-> <<>>]
EAbsent == [t |-> "absent", chars |-> <<>>]

LocalChars == {"lower", "upper", "digit", "dot", "localsym", "hyphen"}
DomainChars == {"lower", "upper", "digit", "dot", "hyphen"}
TldChars == {"lower", "upper"}

\* ^[a-zA-Z0-9._%+-]+@[a-zA-Z0-9.-]+\.[a-zA-Z]{2,} up to the end of cs
FullMatch(cs) ==
    \E a \in 1..Len(cs), d \in 1..Len(cs) :
        /\ a > 1 /\ cs[a] = "at"
        /\ \A k \in 1..(a - 1) : cs[k] \in LocalChars
        /\ d > a + 1 /\ cs[d] = "dot"
        /\ \A k \in (a + 1)..(d - 1) : cs[k] \in DomainChars
        /\ Len(cs) - d >= 2
        /\ \A k \in (d + 1)..Len(cs) : cs[k] \in TldChars

\* re.match(email_pattern, email): $ also matches before a final newline
MatchesEmailPattern(cs) ==
    \/ FullMatch(cs)
    \/ /\ cs # <<>>
       /\ cs[Len(cs)] = "newline"
       /\ FullMatch(SubSeq(cs, 1, Len(cs) - 1))

validate_email(v) == v.t = "str" /\ v.chars # <<>> /\ MatchesEmailPattern(v.chars)

IsESpace(c) == c \in {"space", "newline"}

RECURSIVE EStrip(_)
EStrip(cs) ==
    IF cs # <<>> /\ IsESpace(Head(cs)) THEN EStrip(Tail(cs))
    ELSE IF cs # <<>> /\ IsESpace(cs[Len(cs)]) THEN EStrip(SubSeq(cs, 1, Len(cs) - 1))
    ELSE cs

\* email.strip().lower()
NormalizeEmail(cs) ==
    LET st == EStrip(cs)
    IN  [k \in 1..Len(st) |-> IF st[k] = "upper" THEN "lower" ELSE st[k]]

(***************************************************************************)
(* AI-generated_api.py: validate_user_data                                 *)
(***************************************************************************)
Json(kind, email, nm) == [kind |-> kind, email |-> email, name |-> nm]
JsonNull == Json("null", EAbsent, Absent)

Validation(ok, msg, validated) == [ok |-> ok, message |-> msg, data |-> validated]

validate_user_data(d) ==
    IF d.kind # "object"
    THEN Validation(FALSE, "Request body must be a JSON object", None)
    ELSE IF d.email.t = "absent"
    THEN Validation(FALSE, "Missing required field: email", None)
    ELSE IF d.name.t = "absent"
    THEN Validation(FALSE, "Missing required field: name", None)
    ELSE IF ~validate_email(d.email)
    THEN Validation(FALSE, "Invalid email format", None)
    ELSE IF ~validate_name(d.name).valid
    THEN Validation(FALSE, validate_name(d.name).message, None)
    ELSE Validation(TRUE, "",
             [kind |-> "validated",
              email |-> NormalizeEmail(d.email.chars),
              name |-> Strip(d.name.runs)])

(***************************************************************************)
(* AI-generated_api.py: create_user                                        *)
(***************************************************************************)
\* what request.get_json() does with the body: the value it returns, or
\* the HTTP exception it raises.  Without a JSON body it returns None or
\* raises UnsupportedMediaType, depending on the Flask release; a body
\* that does not parse raises BadRequest.
GetJson(body) ==
    CASE body.kind = "absent" ->
           {[raised |-> "none", value |-> JsonNull],
            [raised |-> "UnsupportedMediaType", value |-> JsonNull]}
      [] body.kind = "unparseable" ->
           {[raised |-> "BadRequest", value |-> JsonNull]}
      [] OTHER -> {[raised |-> "none", value |-> body]}

Response(status, err, msg, user) ==
    [status |-> status, error |-> err, message |-> msg, user |-> user]

\* the body of create_user for one outcome of request.get_json()
CreateUserResponse(got) ==
    LET v == validate_user_data(got.value)
    IN  IF got.raised # "none"
        THEN Response(500, "Internal server error",
                      "An unexpected error occurred processing your request", None)
        ELSE IF got.value.kind = "null"
        THEN Response(400, "Request body required",
                      "Expected JSON request body with user data", None)
        ELSE IF ~v.ok
        THEN Response(400, "Validation failed", v.message, None)
        ELSE Response(201, "", "", v.data)

SampleEmails ==
    {<<>>,
     <<"lower", "at", "lower", "dot", "lower", "lower">>,
     <<"upper", "localsym", "at", "lower", "hyphen", "lower", "dot", "upper", "lower">>,
     <<"lower", "at", "lower", "dot", "lower">>,
     <<"lower", "lower", "lower">>,
     <<"lower", "at", "lower", "lower">>,
     <<"space", "lower", "at", "lower", "dot", "lower", "lower">>,
     <<"lower", "at", "lower", "dot", "lower", "lower", "newline">>,
     <<"lower", "other", "at", "lower", "dot", "lower", "lower">>,
     <<"at", "lower", "dot", "lower", "lower">>}

ApiEmails == {EAbsent, ENonStr} \cup {EStr(cs) : cs \in SampleEmails}

ApiNames ==
    {Absent, NonStr} \cup {Str(rs) : rs \in SeqsUpTo([c : NameClasses, k : {1, MinNameLen}], 1)}

Bodies ==
    {Json("absent", EAbsent, Absent), Json("unparseable", EAbsent, Absent),
     JsonNull, Json("array", EAbsent, Absent)}
    \cup {Json("object", e, n) : e \in ApiEmails, n \in ApiNames}

ApiInit ==
    /\ request \in Bodies
    /\ response = NotStarted

\* POST /users
create_user ==
    /\ response = NotStarted
    /\ \E got \in GetJson(request) : response' = CreateUserResponse(got)
    /\ UNCHANGED request
    /\ UNCHANGED <<batchVars, extractVars, nameVars>>

(***************************************************************************)
(* validate_name applied to a string.                                      *)
(***************************************************************************)
NameInit ==
    /\ name \in {NonStr} \cup {Str(rs) : rs \in SeqsUpTo(Runs, MaxRuns)}
    /\ nameOut = NotStarted

ValidateName ==
    /\ nameOut = NotStarted
    /\ nameOut' = [kind |-> "done", out |-> validate_name(name)]
    /\ UNCHANGED name
    /\ UNCHANGED <<batchVars, extractVars, apiVars>>

(***************************************************************************)
(* Specifications.  Each runs one component; the variables of the others   *)
(* stay at their idle values.                                              *)
(***************************************************************************)
BatchIdle ==
    /\ file_paths = [isList |-> TRUE, paths |-> <<>>]
    /\ pc = "idle" /\ i = 0 /\ results = <<>> /\ errors = <<>>
    /\ openHandles = {} /\ exc = "none" /\ data = None /\ result = None
    /\ calls = <<>> /\ ret = NotStarted
ExtractIdle == xfile = None /\ xai = None /\ xhuman = None
NameIdle == name = None /\ nameOut = None
ApiIdle == request = None /\ response = None

Init == BatchInit /\ ExtractIdle /\ NameIdle /\ ApiIdle
Next ==
    \/ Call \/ PathCheck \/ LoadOpen \/ LoadRead \/ LoadExit
    \/ LoadTypeCheck \/ LoadExcept \/ Extract \/ Emit \/ Return
Spec == Init /\ [][Next]_vars

InitExtract == BatchIdle /\ ExtractInit /\ NameIdle /\ ApiIdle
NextExtract == ExtractUserData \/ HumanProcess
SpecExtract == InitExtract /\ [][NextExtract]_vars

InitName == BatchIdle /\ ExtractIdle /\ NameInit /\ ApiIdle
NextName == ValidateName
SpecName == InitName /\ [][NextName]_vars

InitApi == BatchIdle /\ ExtractIdle /\ NameIdle /\ ApiInit
NextApi == create_user
SpecApi == InitApi /\ [][NextApi]_vars


(***************************************************************************)
(* Vocabulary of the properties.                                           *)
(***************************************************************************)
Range(seq) == {seq[k] : k \in 1..Len(seq)}
Paths == file_paths.paths
PathOf(k) == PathStr(k, Paths[k])
Happened(op, k) == Event(op, k) \in Range(calls)
Failed(k) == Happened("failed", k)
Emitted(k) == Happened("emit", k)
Finished == pc = "done" /\ file_paths.isList
Count(seq, file) == Cardinality({k \in 1..Len(seq) : seq[k].file = file})
StrIdx == {k \in 1..NPaths : IsStr(Paths[k])}
NonStrIdx == {k \in 1..NPaths : ~IsStr(Paths[k])}

\* the steps taken for path k, in the order they were taken
RECURSIVE StepsOf(_, _)
StepsOf(seq, k) ==
    IF seq = <<>> THEN <<>>
    ELSE IF Head(seq)[2] = k THEN <<Head(seq)[1]>> \o StepsOf(Tail(seq), k)
    ELSE StepsOf(Tail(seq), k)

\* C1: when the loop has ended every position of the list has produced
\* exactly one record, a summary in results or an entry in errors, so that
\* len(results) + len(errors) = len(file_paths).
C1_OneRecordPerPath ==
    (pc \in {"summary", "done"} /\ file_paths.isList) =>
        /\ Len(results) + Len(errors) = NPaths
        /\ \A k \in StrIdx : Count(results, PathOf(k)) + Count(errors, PathOf(k)) = 1
        /\ Count(errors, "42") = Cardinality(NonStrIdx)
        /\ Count(results, "42") = 0

C1_Witness ==
    /\ Finished
    /\ NPaths >= 2
    /\ Len(results) >= 1
    /\ Len(errors) >= 1

\* C2: a failure on the path at index k is recorded in errors and does not
\* abort the batch: every later path is still examined and gets its own
\* outcome, and the summaries collected before k are in the returned list.
C2_FailureDoesNotAbort ==
    \A k \in 1..NPaths : Failed(k) =>
        /\ Count(errors, PathOf(k)) >= 1
        /\ \A j \in 1..(k - 1) : Emitted(j) => Count(results, PathOf(j)) = 1
        /\ pc = "done" =>
             /\ \A j \in (k + 1)..NPaths :
                    Happened("pathcheck", j) /\ (Emitted(j) \/ Failed(j))
             /\ ret.kind = "returned"
             /\ ret.value = results
             /\ \A j \in 1..NPaths : Emitted(j) => Count(ret.value, PathOf(j)) = 1

C2_Witness ==
    /\ Finished
    /\ NPaths >= 3
    /\ Emitted(1) /\ Failed(2) /\ Emitted(3)
    /\ Len(ret.value) = 2

FailureMode(f) ==
    CASE f.kind \in {"missing", "directory"} -> "inaccessible"
      [] f.kind = "object" /\ f.ut \in {"number", "emptyobj"} -> "users-not-list"
      [] f.kind = "object" -> "none"
      [] OTHER -> f.kind

ErrorOf(k) == CHOOSE e \in Range(errors) : e.file = PathOf(k)

\* C5: every file-level failure mode is recorded with its own reason,
\* different from the reason of every other mode and the same for every
\* file of the mode; a file whose top-level JSON value is not an object is
\* recorded with "File does not contain a JSON object".
C5_ReasonPerFailureMode ==
    \A k \in StrIdx : (Failed(k) /\ FailureMode(Paths[k]) # "none") =>
        /\ Paths[k].kind = "nonobject" => ErrorOf(k).error = NotObjectMessage
        /\ \A j \in StrIdx : (Failed(j) /\ FailureMode(Paths[j]) # "none") =>
             (ErrorOf(j).error = ErrorOf(k).error
                <=> FailureMode(Paths[j]) = FailureMode(Paths[k]))

\* the steps of one path, complete or still under way
StepOrders ==
    {<<>>, <<"pathcheck">>, <<"pathcheck", "failed">>,
     <<"pathcheck", "load">>, <<"pathcheck", "load", "failed">>,
     <<"pathcheck", "load", "extract">>,
     <<"pathcheck", "load", "extract", "failed">>,
     <<"pathcheck", "load", "extract", "emit">>}

\* C9: the steps of a path run in the order path check, load, extract,
\* emit, each only after the earlier ones succeeded: no load for a path
\* that is not a string or not an existing regular file, no extract for a
\* path whose load failed, no summary after a failed step; a failed path
\* takes no further step and the loop moves on to the next path.
C9_StepsInOrder ==
    /\ \A k \in 1..NPaths : StepsOf(calls, k) \in StepOrders
    /\ \A a, b \in 1..Len(calls) : a < b => calls[a][2] <= calls[b][2]
    /\ \A k \in 1..NPaths :
         /\ Happened("load", k) =>
               IsStr(Paths[k]) /\ Paths[k].kind \notin {"missing", "directory"}
         /\ Happened("extract", k) => Paths[k].kind = "object"
         /\ Emitted(k) =>
               /\ Paths[k].kind = "object" /\ Paths[k].ut \in {"absent", "list"}
               /\ ~Failed(k)
               /\ Count(errors, PathOf(k)) = 0
         /\ Failed(k) => Count(results, PathOf(k)) = 0
         /\ (Failed(k) /\ k < NPaths /\ pc = "done") => Happened("pathcheck", k + 1)

C9_Witness ==
    /\ Finished
    /\ \E k, j, m \in 1..NPaths :
         /\ StepsOf(calls, k) = <<"pathcheck", "load", "extract", "emit">>
         /\ StepsOf(calls, j) = <<"pathcheck", "failed">>
         /\ StepsOf(calls, m) = <<"pathcheck", "load", "failed">>

\* C10: at most one file is open at any time, files are opened in input
\* order, and the file opened for a path is closed before the next path is
\* examined and before the function returns, whatever the load's outcome.
C10_OneHandleAtATime ==
    /\ Cardinality(openHandles) <= 1
    /\ openHandles # {} => openHandles = {i} /\ pc \in {"read", "exit"}
    /\ pc \notin {"read", "exit"} => openHandles = {}
    /\ \A a, b \in 1..Len(calls) :
         (a < b /\ calls[a][1] = "load" /\ calls[b][1] = "load") =>
             calls[a][2] < calls[b][2]

C10_Witness ==
    /\ pc = "except"
    /\ exc \in {"JSONDecodeError", "UnicodeDecodeError"}
    /\ openHandles = {}
    /\ i >= 2
    /\ Happened("load", 1)


(***************************************************************************)
(* Properties of extract_user_data and of the two implementations.         *)
(***************************************************************************)
\* the entries the specification counts into the total: objects whose
\* 'value' is absent (0) or converts to a number
Convertible(u) == u.kind \in {"absent", "int", "numstr", "bool"}

RECURSIVE SumOfConvertible(_)
SumOfConvertible(users) ==
    IF users = <<>> THEN 0
    ELSE (IF Convertible(Head(users)) THEN Head(users).n ELSE 0)
         + SumOfConvertible(Tail(users))

XUsers == IF xfile.ut = "list" THEN xfile.items ELSE <<>>
XAiDone == xai.kind = "done"
XHumanDone == xhuman.kind = "done"

\* C3: for every object whose 'users' entry is a list or absent,
\* extract_user_data emits a summary whose user_count is the raw length of
\* the list and whose total_value is the sum over the object entries whose
\* 'value' converts to a number; the other entries do not fail the file.
C3_CountAndTotal ==
    (XAiDone /\ xfile.ut \in {"absent", "list"}) =>
        /\ xai.out.ok
        /\ xai.out.summary.user_count = Len(XUsers)
        /\ xai.out.summary.total_value = SumOfConvertible(XUsers)

Plain(u) == u.kind \in {"absent", "int", "bool"}
\* entries extract_user_data skips or converts from a string
NotANumber(u) == u.kind \in {"nonobj", "numstr", "badstr", "null", "list"}

NameDone == nameOut.kind = "done" /\ name.t = "str"
Classes(runs) == {runs[r].c : r \in 1..Len(runs)}
NamedSet == {"letter", "space", "hyphen", "apostrophe"}

\* the string without its leading and trailing whitespace: from the first
\* to the last run that is not whitespace
Core(runs) ==
    LET solid == {r \in 1..Len(runs) : ~IsSpace(runs[r].c)}
    IN  IF solid = {} THEN <<>>
        ELSE SubSeq(runs, CHOOSE r \in solid : \A q \in solid : r <= q,
                          CHOOSE r \in solid : \A q \in solid : r >= q)

\* C6 as stated: (True, "") for every string of length 2 to 100 of letters,
\* spaces, hyphens and apostrophes; False for every such string of length 1
\* or 101; False for every string holding a digit or another symbol.
C6_Original ==
    NameDone =>
        /\ (Classes(name.runs) \subseteq NamedSet
              /\ StrLen(name.runs) >= 2 /\ StrLen(name.runs) <= 100)
             => nameOut.out = NameResult(TRUE, "")
        /\ (Classes(name.runs) \subseteq NamedSet /\ StrLen(name.runs) \in {1, 101})
             => ~nameOut.out.valid
        /\ (Classes(name.runs) \cap {"digit", "symbol"} # {}) => ~nameOut.out.valid

\* C6 amended: the lengths are those of the trimmed string.  (True, "") for
\* every string whose trimmed form has length 2 to 100 and holds only ASCII
\* letters, whitespace, hyphens and apostrophes; False for every string
\* whose trimmed length is below 2 or above 100; False for every string
\* holding a digit, a non-ASCII letter or a symbol outside that set.
C6_TrimmedLength ==
    NameDone =>
        /\ (Classes(Core(name.runs)) \subseteq (NamedSet \cup {"tab"})
              /\ StrLen(Core(name.runs)) >= 2 /\ StrLen(Core(name.runs)) <= 100)
             => nameOut.out = NameResult(TRUE, "")
        /\ (StrLen(Core(name.runs)) < 2 \/ StrLen(Core(name.runs)) > 100)
             => ~nameOut.out.valid
        /\ (Classes(name.runs) \cap {"digit", "symbol", "nonascii"} # {})
             => ~nameOut.out.valid

C6_Witness ==
    /\ NameDone
    /\ StrLen(name.runs) = 101
    /\ StrLen(Core(name.runs)) = 100
    /\ nameOut.out = NameResult(TRUE, "")

(***************************************************************************)
(* Properties of create_user.                                              *)
(***************************************************************************)
\* C7: a POST /users whose body is absent or does not parse as JSON is
\* answered 400 'Request body required', never 201 or 500, however
\* request.get_json reports the body.
C7_NoBodyIs400 ==
    (response # NotStarted /\ request.kind \in {"absent", "unparseable"}) =>
        /\ response.status = 400
        /\ response.error = "Request body required"

====
